---- MODULE Spec2Model ----
(***************************************************************************)
(* The arXiv daily-summary fetcher (src/src/arxiv_fetch_daily_summaries.py) *)
(* as a state machine: the research_fetch_status table, the invocation of  *)
(* lambda_handler, the pagination loop of fetch_data and the per-date loop; *)
(* and the summary loader (arxiv_summary_loader.py) with its research      *)
(* table.                                                                  *)
(*                                                                         *)
(* Calendar dates are day numbers: the 'YYYY-MM-DD' strings the code uses   *)
(* order and subtract as their day numbers do.  Day n reads as 2024-03-n.   *)
(***************************************************************************)
EXTENDS Integers, Sequences, FiniteSets, TLC

VARIABLES
    wall_clock,               \* the calendar day datetime.today() returns
    committed,                \* research_fetch_status as committed in the database
    table,                    \* research_fetch_status as the open transaction sees it
    conn,                     \* the invocation's connection: "none", "open", "closed"
    pc,                       \* where lambda_handler stands
    runs,                     \* invocations started so far
    prev_run,                 \* how the previous invocation ended: its day, the dates it left
                              \* unsuccessful, the date it was killed on (None: not killed)
    today,                    \* lambda_handler's local `today` (calculate_from_date)
    earliest_unfetched_date,  \* lambda_handler's local
    query_failed,             \* the SELECT of get_earliest_unfetched_date raised
    params,                   \* fetch_data's local
    retry_count,              \* fetch_data's local
    full_xml_responses,       \* fetch_data's local, then lambda_handler's
    trace,                    \* every request of this fetch: what was sent, received, slept
    date_list,                \* lambda_handler's local
    idx,                      \* position of the per-date loop in date_list
    calls,                    \* the FetchStatus mutators called by this invocation, in order
    puts,                     \* the put_object calls of this invocation, in order
    scheduled,                \* schedule_for_later calls of this invocation
    result,                   \* what lambda_handler returned
    other_run,                    \* a second invocation of lambda_handler, overlapping this one
    loader                        \* the summary loader (arxiv_summary_loader.py): its research
                                  \* table, its open transaction and where its handler stands

vars == <<loader, other_run, wall_clock, committed, table, conn, pc, runs, prev_run, today,
          earliest_unfetched_date, query_failed, params, retry_count,
          full_xml_responses, trace, date_list, idx, calls, puts, scheduled, result>>

-----------------------------------------------------------------------------
(* Program constants *)

Days == 5                       \* get_earliest_unfetched_date(cursor, days=5)
BackoffTimes == <<30, 120>>     \* handle_http_error: backoff_times
InterPageSleep == 5             \* fetch_data: time.sleep(5)

(* Bounds of the model *)

Horizon == 5          \* days the clock may advance after the first invocation
MaxRuns == 2          \* invocations explored by the day-by-day specification
DailyMaxPages == 1    \* token-bearing pages per fetch, day-by-day specification
FetchMaxPages == 2    \* token-bearing pages per fetch, single-invocation specification
MaxLookback == 6      \* lookback windows get_earliest_unfetched_date is tried with

FirstDay == Days + 2  \* the day of the first invocation (2024-03-07)
None == -1            \* Python's None / the empty string: no date, no token, no header

Min(S) == CHOOSE x \in S : \A y \in S : x <= y

-----------------------------------------------------------------------------
(* The research_fetch_status table: a set of rows *)

Row(d, s, n) == [fetch_date |-> d, status |-> s, retry_count |-> n]

RowsOf(rows, d) == {r \in rows : r.fetch_date = d}

\* as insert_fetch_status, but the INSERT has no ON CONFLICT clause and the table no key
insert_fetch_status_no_conflict_clause(rows, date) ==
    rows \cup {Row(date, "pending", 0)}

\* INSERT ... VALUES (d, 'pending') ON CONFLICT (fetch_date) DO NOTHING
insert_fetch_status(rows, date) ==
    IF RowsOf(rows, date) # {} THEN rows ELSE rows \cup {Row(date, "pending", 0)}

\* as set_fetch_success, but the UPDATE also sets retry_count = 0
set_fetch_success_resetting_count(rows, date) ==
    {IF r.fetch_date = date
        THEN [r EXCEPT !.status = "success", !.retry_count = 0]
        ELSE r : r \in rows}

\* UPDATE ... SET status = 'success' WHERE fetch_date = d
set_fetch_success(rows, date) ==
    {IF r.fetch_date = date THEN [r EXCEPT !.status = "success"] ELSE r : r \in rows}

\* as set_fetch_failure, but the UPDATE says WHERE fetch_date <= d
set_fetch_failure_up_to_date(rows, date) ==
    {IF r.fetch_date <= date
        THEN [r EXCEPT !.status = "failure", !.retry_count = r.retry_count + 1]
        ELSE r : r \in rows}

\* as set_fetch_failure, but the UPDATE has no WHERE clause
set_fetch_failure_every_row(rows, date) ==
    {[r EXCEPT !.status = "failure", !.retry_count = r.retry_count + 1] : r \in rows}

\* as set_fetch_failure, but the UPDATE says ... AND status <> 'success'
set_fetch_failure_sparing_success(rows, date) ==
    {IF r.fetch_date = date /\ r.status # "success"
        THEN [r EXCEPT !.status = "failure", !.retry_count = r.retry_count + 1]
        ELSE r : r \in rows}

\* UPDATE ... SET status = 'failure', retry_count = retry_count + 1 WHERE fetch_date = d
set_fetch_failure(rows, date) ==
    {IF r.fetch_date = date
        THEN [r EXCEPT !.status = "failure", !.retry_count = r.retry_count + 1]
        ELSE r : r \in rows}

\* past_dates of get_earliest_unfetched_date
past_dates(now, days) == {now - i : i \in 1..days}

\* as fetched_dates, but the query does not ask for status = 'success'
fetched_dates_any_status(rows, now, days) ==
    {r.fetch_date : r \in {q \in rows : q.fetch_date \in past_dates(now, days)}}

\* SELECT fetch_date ... WHERE fetch_date = ANY(past_dates) AND status = 'success'
fetched_dates(rows, now, days) ==
    {r.fetch_date : r \in {q \in rows : q.fetch_date \in past_dates(now, days)
                                        /\ q.status = "success"}}

\* as get_earliest_unfetched_date, but the latest unfetched date is taken
get_latest_unfetched_date(rows, now, days, raised) ==
    LET unfetched_dates == past_dates(now, days) \ fetched_dates(rows, now, days)
        latest_date == IF raised \/ unfetched_dates = {} THEN None
                       ELSE CHOOSE x \in unfetched_dates : \A y \in unfetched_dates : x >= y
    IN  IF latest_date # None THEN latest_date ELSE now - 1

\* as get_earliest_unfetched_date, but the except branch's None is returned as it is
get_earliest_unfetched_date_none_on_failure(rows, now, days, raised) ==
    LET unfetched_dates == past_dates(now, days) \ fetched_dates(rows, now, days)
    IN  IF raised THEN None
        ELSE IF unfetched_dates = {} THEN now - 1 ELSE Min(unfetched_dates)

\* get_earliest_unfetched_date; raised: the query raised and the except branch ran
get_earliest_unfetched_date(rows, now, days, raised) ==
    LET unfetched_dates == past_dates(now, days) \ fetched_dates(rows, now, days)
        earliest_date == IF raised \/ unfetched_dates = {} THEN None
                         ELSE Min(unfetched_dates)
    IN  IF earliest_date # None THEN earliest_date ELSE now - 1

calculate_from_date(now) == now - 1

\* as generate_date_list, but from the end date down to the start date
generate_date_list_descending(start_date, end_date) ==
    [i \in 1..(IF end_date >= start_date THEN end_date - start_date + 1 ELSE 0)
        |-> end_date - (i - 1)]

generate_date_list(start_date, end_date) ==
    [i \in 1..(IF end_date >= start_date THEN end_date - start_date + 1 ELSE 0)
        |-> start_date + (i - 1)]

-----------------------------------------------------------------------------
(* The endpoint's responses *)

\* A response body.  id: which response of the fetch it is (every response is a
\* payload of its own); maintenance: the text contains "maintenance" in some
\* case; well_formed: ET.fromstring parses it; token: the text of its
\* resumptionToken element (None: no element, or an empty one); dates: the dates
\* d for which the text holds a record that process_fetch's pattern matches.
Body(id, m, wf, tok, ds) ==
    [id |-> id, maintenance |-> m, well_formed |-> wf, token |-> tok, dates |-> ds]

Response(code, hint, body) == [status_code |-> code, retry_after |-> hint, text |-> body]

\* What one page of a harvest from `from` may hold records of.
PageDateSets(from, yesterday) == {{}, {yesterday}, from..yesterday}

\* The responses the endpoint may give to request number id of a fetch:
\*   pages   200, records and perhaps a resumption token
\*   notice  200, a text that says "maintenance" (an abstract may)
\*   broken  200, a text that is not XML
\*   busy    503, with or without a Retry-After header
\*   down    503 or 404, a text that says "maintenance"
\*   other   404 or 500
\* rich: all of them at every request.  Otherwise the endpoint is busy only at
\* the first request of a fetch, and sends no header and no notice.
\* A page carries a token only while fewer than max_pages token pages were sent.
Endpoint(rich, max_pages, id, from, yesterday, token_pages) ==
    LET tokens == IF token_pages < max_pages THEN {None, id} ELSE {None}
        pages == {Response(200, None, Body(id, FALSE, TRUE, t, ds)) :
                     t \in tokens, ds \in PageDateSets(from, yesterday)}
        notice == {Response(200, None, Body(id, TRUE, TRUE, t, {})) : t \in tokens}
        broken == {Response(200, None, Body(id, FALSE, FALSE, None, {}))}
        busy == {Response(503, h, Body(id, FALSE, FALSE, None, {})) :
                    h \in IF rich THEN {None, 120} ELSE {None}}
        down == {Response(c, None, Body(id, TRUE, FALSE, None, {})) : c \in {503, 404}}
        other == {Response(c, None, Body(id, FALSE, FALSE, None, {})) :
                     c \in IF rich THEN {404, 500} ELSE {404}}
    IN  IF rich THEN pages \cup notice \cup broken \cup busy \cup down \cup other
        ELSE pages \cup broken \cup other \cup (IF id = 1 THEN busy ELSE {})

\* fetch_http_response: returns the status code and the text, nothing else
fetch_http_response(response) ==
    [status_code |-> response.status_code, xml_content |-> response.text]

\* as handle_http_error, but the schedule is read from its end
handle_http_error_reversed(status_code, response_text, count) ==
    IF response_text.maintenance
    THEN [backoff_time |-> 0, schedule |-> TRUE]
    ELSE IF status_code = 503 /\ count < Len(BackoffTimes)
         THEN [backoff_time |-> BackoffTimes[Len(BackoffTimes) - count], schedule |-> FALSE]
         ELSE [backoff_time |-> 0, schedule |-> FALSE]

\* as handle_http_error, but the schedule starts over when it is used up
handle_http_error_unbounded(status_code, response_text, count) ==
    IF response_text.maintenance
    THEN [backoff_time |-> 0, schedule |-> TRUE]
    ELSE IF status_code = 503
         THEN [backoff_time |-> BackoffTimes[(count % Len(BackoffTimes)) + 1],
               schedule |-> FALSE]
         ELSE [backoff_time |-> 0, schedule |-> FALSE]

\* as handle_http_error, but the status code is looked at before the text
handle_http_error_status_first(status_code, response_text, count) ==
    IF status_code = 503 /\ count < Len(BackoffTimes)
    THEN [backoff_time |-> BackoffTimes[count + 1], schedule |-> FALSE]
    ELSE [backoff_time |-> 0, schedule |-> response_text.maintenance]

\* as handle_http_error, but every failed status is backed off, not 503 alone
handle_http_error_every_status(status_code, response_text, count) ==
    IF response_text.maintenance
    THEN [backoff_time |-> 0, schedule |-> TRUE]
    ELSE IF status_code # 200 /\ count < Len(BackoffTimes)
         THEN [backoff_time |-> BackoffTimes[count + 1], schedule |-> FALSE]
         ELSE [backoff_time |-> 0, schedule |-> FALSE]

\* as handle_http_error, but a maintenance notice aborts without schedule_for_later
handle_http_error_without_reschedule(status_code, response_text, count) ==
    IF response_text.maintenance
    THEN [backoff_time |-> 0, schedule |-> FALSE]
    ELSE IF status_code = 503 /\ count < Len(BackoffTimes)
         THEN [backoff_time |-> BackoffTimes[count + 1], schedule |-> FALSE]
         ELSE [backoff_time |-> 0, schedule |-> FALSE]

\* handle_http_error: the backoff time (0: abort), and whether schedule_for_later ran
handle_http_error(status_code, response_text, count) ==
    IF response_text.maintenance
    THEN [backoff_time |-> 0, schedule |-> TRUE]
    ELSE IF status_code = 503 /\ count < Len(BackoffTimes)
         THEN [backoff_time |-> BackoffTimes[count + 1], schedule |-> FALSE]
         ELSE [backoff_time |-> 0, schedule |-> FALSE]

\* extract_resumption_token: ET.fromstring raises on text that is not well formed
extract_raises(xml_content) == ~xml_content.well_formed

extract_resumption_token(xml_content) == xml_content.token

\* as append_xml_content, but the new page goes first
prepend_xml_content(responses, xml_content) == <<xml_content>> \o responses

\* line 255: full_xml_responses.append(xml_content)
append_xml_content(responses, xml_content) == Append(responses, xml_content)

initial_params(summary_set, from_date) ==
    [verb |-> "ListRecords", set |-> summary_set, metadataPrefix |-> "oai_dc",
     from |-> from_date]

\* as continuation_params, but the token is added to the parameters of the harvest
continuation_params_keeping_set(resumption_token) ==
    [verb |-> "ListRecords", set |-> "set", metadataPrefix |-> "oai_dc",
     resumptionToken |-> resumption_token]

continuation_params(resumption_token) ==
    [verb |-> "ListRecords", resumptionToken |-> resumption_token]

\* as process_success, but only the first page is searched
process_success_first_page(from_date, fetched_data) ==
    Len(fetched_data) >= 1 /\ from_date \in fetched_data[1].dates

\* process_fetch: any(re.search(pattern(from_date), xml) for xml in fetched_data)
process_success(from_date, fetched_data) ==
    \E i \in 1..Len(fetched_data) : from_date \in fetched_data[i].dates

\* as upload_to_s3, but only the pages that hold a record of from_date are put
upload_to_s3_matching_pages(from_date, fetched_data) ==
    LET Holds(i) == from_date \in fetched_data[i].dates
        hit == SelectSeq([i \in 1..Len(fetched_data) |-> i], Holds)
    IN  [k \in 1..Len(hit) |->
            [key |-> <<from_date, k - 1>>, body |-> fetched_data[hit[k]].id]]

\* upload_to_s3: one put_object per page, key arxiv/{set}-{date}-{idx}.xml
upload_to_s3(from_date, fetched_data) ==
    [i \in 1..Len(fetched_data) |->
        [key |-> <<from_date, i - 1>>, body |-> fetched_data[i].id]]

-----------------------------------------------------------------------------
(* The state between invocations *)

NoParams == [verb |-> "unset"]
NoResult == [statusCode |-> None, body |-> None]

\* dates whose row says pending or failure
Unsuccessful(rows) == {r.fetch_date : r \in {q \in rows : q.status # "success"}}

-----------------------------------------------------------------------------
(* The summary loader (arxiv_summary_loader.py) *)

MaxIdentifier == 2
MaxFields == 2
MaxBatch == 2
MaxLoads == 2

\* a record of a parsed batch: its identifier, its other field values taken
\* together, and whether it carries every required field
Records == [identifier : 1..MaxIdentifier, fields : 1..MaxFields, complete : BOOLEAN]

RECURSIVE Batches(_)
Batches(n) ==
    IF n = 0 THEN {<<>>}
    ELSE Batches(n - 1) \cup {Append(b, r) : b \in {c \in Batches(n - 1) : Len(c) = n - 1}, r \in Records}

\* a row of the research table
ResearchRow(record) == [unique_identifier |-> record.identifier, fields |-> record.fields]

\* the research tables the unique index on unique_identifier admits
ResearchTables ==
    {t \in SUBSET [unique_identifier : 1..MaxIdentifier, fields : 1..MaxFields] :
        \A r1, r2 \in t : r1.unique_identifier = r2.unique_identifier => r1 = r2}

\* validate_record returns (TRUE) or raises ValueError (FALSE)
validate_record(record) == record.complete

\* the INSERT of insert_research_entry: the %s of its VALUES list (line 201)
\* and the values of the tuple passed with it (lines 216-224)
Placeholders == 10
Arguments == 9

\* cursor.execute(query, values) fills the placeholders one by one from the
\* tuple and raises when the two differ in number; otherwise the row with the
\* record's identifier is inserted, or replaced by ON CONFLICT ... DO UPDATE
insert_research_entry(rows, record) ==
    IF Placeholders # Arguments
    THEN [raises |-> TRUE, rows |-> rows]
    ELSE [raises |-> FALSE,
          rows |-> {r \in rows : r.unique_identifier # record.identifier}
                   \cup {ResearchRow(record)}]

\* insert_research: validate_record, then insert_research_entry; the group
\* and author statements that follow are not about the research table
insert_research(rows, record) ==
    IF ~validate_record(record)
    THEN [raises |-> TRUE, rows |-> rows]
    ELSE insert_research_entry(rows, record)

\* The loader before its first load.  research: the table as committed; txn:
\* the table as the open transaction sees it; records, i: the batch being
\* loaded and the loop's position in it; before: the table when the load
\* began; loads: loads started so far.
NoLoad ==
    [pc |-> "idle", research |-> {}, txn |-> {}, records |-> <<>>, i |-> 0,
     before |-> {}, loads |-> 0]

\* The second invocation runs the same handler in a transaction of its own.  Of
\* its fetch only what process_fetch reads is kept: harvested, the dates its
\* batch holds a record of.  writes: the rows its transaction has inserted or
\* updated and not yet committed; it holds the lock of each.
NoOther ==
    [pc |-> "none", today |-> None, harvested |-> {}, date_list |-> <<>>, idx |-> 0,
     writes |-> {}]

DatesOf(rows) == {r.fetch_date : r \in rows}

\* rows as a transaction sees them: the committed ones, and its own writes over them
View(writes) == {r \in committed : r.fetch_date \notin DatesOf(writes)} \cup writes

\* the dates whose row this invocation has inserted or updated and not yet
\* committed: every date it gave a verdict on, and every row it inserted
Locked ==
    IF pc \in {"cursor", "fetch", "loop", "process"}
    THEN {calls[k][2] : k \in {j \in DOMAIN calls : calls[j][1] # "mark_pending"}}
         \cup {d \in DatesOf(table) : RowsOf(committed, d) = {}}
    ELSE {}

\* a statement of this invocation on date d waits while the other holds d's lock
Blocked(d) == d \in DatesOf(other_run.writes)

FetcherInit ==
    /\ other_run = NoOther
    /\ wall_clock = FirstDay
    /\ committed = {}
    /\ table = {}
    /\ conn = "none"
    /\ pc = "idle"
    /\ runs = 0
    /\ prev_run = [day |-> None, unsuccessful |-> {}, killed_on |-> None]
    /\ today = None
    /\ earliest_unfetched_date = None
    /\ query_failed = FALSE
    /\ params = NoParams
    /\ retry_count = 0
    /\ full_xml_responses = <<>>
    /\ trace = <<>>
    /\ date_list = <<>>
    /\ idx = 0
    /\ calls = <<>>
    /\ puts = <<>>
    /\ scheduled = 0
    /\ result = NoResult

Init ==
    /\ FetcherInit
    /\ loader = NoLoad

Idle == pc \in {"idle", "done", "crashed", "killed"}

\* the per-date loop stands at a date of date_list (line 183)
InLoop == idx \in DOMAIN date_list

\* what the invocation that just ended leaves for the next one to be compared with
EndOfRun ==
    IF pc = "idle" THEN prev_run
    ELSE [day |-> wall_clock, unsuccessful |-> Unsuccessful(committed),
          killed_on |-> IF pc = "killed" /\ InLoop THEN date_list[idx] ELSE None]

\* the locals of an invocation that is over
ForgetLocals ==
    /\ today' = None
    /\ earliest_unfetched_date' = None
    /\ query_failed' = FALSE
    /\ params' = NoParams
    /\ retry_count' = 0
    /\ full_xml_responses' = <<>>
    /\ trace' = <<>>
    /\ date_list' = <<>>
    /\ idx' = 0
    /\ calls' = <<>>
    /\ puts' = <<>>
    /\ scheduled' = 0
    /\ result' = NoResult

\* Midnight passes while no invocation is in flight (Midnight: while one is).
Tick ==
    /\ Idle
    /\ runs > 0
    /\ wall_clock < FirstDay + Horizon
    /\ wall_clock' = wall_clock + 1
    /\ pc' = "idle"
    /\ conn' = "none"
    /\ prev_run' = EndOfRun
    /\ ForgetLocals
    /\ UNCHANGED <<loader, other_run, committed, table, runs>>

-----------------------------------------------------------------------------
(* lambda_handler *)

\* An exception leaves lambda_handler: finalize_db is not reached, nothing is
\* committed, and the transaction's changes are gone with the connection.
Raise ==
    /\ pc' = "crashed"
    /\ table' = committed

\* The host's hard timeout ends the invocation inside the per-date loop (lines
\* 183-190): conn.commit() (line 52) never ran, the server rolls back what the
\* transaction did, and the process is gone with its locals.  Where the loop
\* stood (date_list, idx) is kept, to say which date was being processed.
Kill ==
    /\ pc \in {"loop", "process"}
    /\ InLoop
    /\ pc' = "killed"
    /\ table' = committed
    /\ today' = None
    /\ earliest_unfetched_date' = None
    /\ query_failed' = FALSE
    /\ params' = NoParams
    /\ retry_count' = 0
    /\ full_xml_responses' = <<>>
    /\ trace' = <<>>
    /\ calls' = <<>>
    /\ UNCHANGED <<loader, other_run, wall_clock, committed, conn, runs, prev_run, date_list, idx, puts,
                   scheduled, result>>

\* lines 171-174: initialize_db, calculate_from_date, insert_fetch_status(today)
Invoke(max_runs) ==
    /\ Idle
    /\ runs < max_runs
    /\ runs' = runs + 1
    /\ prev_run' = EndOfRun
    /\ conn' = "open"
    /\ LET t == calculate_from_date(wall_clock)
       IN  /\ ~Blocked(t)
           /\ today' = t
           /\ table' = insert_fetch_status(committed, t)
           /\ calls' = <<<<"mark_pending", t>>>>
    /\ earliest_unfetched_date' = None
    /\ query_failed' = FALSE
    /\ params' = NoParams
    /\ retry_count' = 0
    /\ full_xml_responses' = <<>>
    /\ trace' = <<>>
    /\ date_list' = <<>>
    /\ idx' = 0
    /\ puts' = <<>>
    /\ scheduled' = 0
    /\ result' = NoResult
    /\ pc' = "cursor"
    /\ UNCHANGED <<loader, other_run, wall_clock, committed>>

\* lines 176-178 and 240-242: get_earliest_unfetched_date, then fetch_data begins
GetEarliest ==
    /\ pc = "cursor"
    /\ \E raised \in BOOLEAN :
          LET e == get_earliest_unfetched_date(table, wall_clock, Days, raised)
          IN  /\ earliest_unfetched_date' = e
              /\ query_failed' = raised
              /\ params' = initial_params("set", e)
    /\ retry_count' = 0
    /\ full_xml_responses' = <<>>
    /\ pc' = "fetch"
    /\ UNCHANGED <<loader, other_run, wall_clock, committed, table, conn, runs, prev_run, today, trace,
                   date_list, idx, calls, puts, scheduled, result>>

\* one entry of the trace: the request, the response, and the sleep that followed
Exchange(response, slept) ==
    [params |-> params, status_code |-> response.status_code,
     retry_after |-> response.retry_after, text |-> response.text, slept |-> slept]

\* the responses the endpoint may give to the request fetch_data is about to send
Offered(rich, max_pages) ==
    Endpoint(rich, max_pages, Len(trace) + 1, earliest_unfetched_date, today,
             Len(full_xml_responses))

\* line 180: fetch_data has returned; the per-date loop begins
BeginDates ==
    /\ date_list' = generate_date_list(earliest_unfetched_date, today)
    /\ idx' = 1
    /\ pc' = "loop"

\* as FetchRetry, but the retry starts the harvest over from the initial parameters
FetchRetry_from_start(rich, max_pages) ==
    /\ pc = "fetch"
    /\ \E response \in Offered(rich, max_pages) :
          LET r == fetch_http_response(response)
              h == handle_http_error(r.status_code, r.xml_content, retry_count)
          IN  /\ r.status_code # 200
              /\ h.backoff_time # 0
              /\ trace' = Append(trace, Exchange(response, h.backoff_time))
              /\ scheduled' = scheduled + (IF h.schedule THEN 1 ELSE 0)
    /\ retry_count' = retry_count + 1
    /\ params' = initial_params("set", earliest_unfetched_date)
    /\ UNCHANGED <<loader, other_run, wall_clock, committed, table, conn, pc, runs, prev_run, today,
                   earliest_unfetched_date, query_failed, full_xml_responses,
                   date_list, idx, calls, puts, result>>

\* lines 244-251: a failed request that handle_http_error says to retry
FetchRetry(rich, max_pages) ==
    /\ pc = "fetch"
    /\ \E response \in Offered(rich, max_pages) :
          LET r == fetch_http_response(response)
              h == handle_http_error(r.status_code, r.xml_content, retry_count)
          IN  /\ r.status_code # 200
              /\ h.backoff_time # 0
              /\ trace' = Append(trace, Exchange(response, h.backoff_time))
              /\ scheduled' = scheduled + (IF h.schedule THEN 1 ELSE 0)
    /\ retry_count' = retry_count + 1
    /\ UNCHANGED <<loader, other_run, wall_clock, committed, table, conn, pc, runs, prev_run, today,
                   earliest_unfetched_date, query_failed, params, full_xml_responses,
                   date_list, idx, calls, puts, result>>

\* as FetchAbort, but the pages collected before the failure are dropped
FetchAbort_dropping_pages(rich, max_pages) ==
    /\ pc = "fetch"
    /\ \E response \in Offered(rich, max_pages) :
          LET r == fetch_http_response(response)
              h == handle_http_error(r.status_code, r.xml_content, retry_count)
          IN  /\ r.status_code # 200
              /\ h.backoff_time = 0
              /\ trace' = Append(trace, Exchange(response, 0))
              /\ scheduled' = scheduled + (IF h.schedule THEN 1 ELSE 0)
    /\ BeginDates
    /\ full_xml_responses' = <<>>
    /\ UNCHANGED <<loader, other_run, wall_clock, committed, table, conn, runs, prev_run, today,
                   earliest_unfetched_date, query_failed, params, retry_count,
                   calls, puts, result>>

\* lines 244-253: a failed request that ends the fetch
FetchAbort(rich, max_pages) ==
    /\ pc = "fetch"
    /\ \E response \in Offered(rich, max_pages) :
          LET r == fetch_http_response(response)
              h == handle_http_error(r.status_code, r.xml_content, retry_count)
          IN  /\ r.status_code # 200
              /\ h.backoff_time = 0
              /\ trace' = Append(trace, Exchange(response, 0))
              /\ scheduled' = scheduled + (IF h.schedule THEN 1 ELSE 0)
    /\ BeginDates
    /\ UNCHANGED <<loader, other_run, wall_clock, committed, table, conn, runs, prev_run, today,
                   earliest_unfetched_date, query_failed, params, retry_count,
                   full_xml_responses, calls, puts, result>>

\* lines 244-261: a page with a resumption token
FetchPage(rich, max_pages) ==
    /\ pc = "fetch"
    /\ \E response \in Offered(rich, max_pages) :
          LET r == fetch_http_response(response)
              resumption_token == extract_resumption_token(r.xml_content)
          IN  /\ r.status_code = 200
              /\ ~extract_raises(r.xml_content)
              /\ resumption_token # None
              /\ full_xml_responses' = append_xml_content(full_xml_responses, r.xml_content)
              /\ params' = continuation_params(resumption_token)
              /\ trace' = Append(trace, Exchange(response, InterPageSleep))
    /\ UNCHANGED <<loader, other_run, wall_clock, committed, table, conn, pc, runs, prev_run, today,
                   earliest_unfetched_date, query_failed, retry_count, date_list, idx,
                   calls, puts, scheduled, result>>

\* lines 244-263: a page without a resumption token
FetchLastPage(rich, max_pages) ==
    /\ pc = "fetch"
    /\ \E response \in Offered(rich, max_pages) :
          LET r == fetch_http_response(response)
          IN  /\ r.status_code = 200
              /\ ~extract_raises(r.xml_content)
              /\ extract_resumption_token(r.xml_content) = None
              /\ full_xml_responses' = append_xml_content(full_xml_responses, r.xml_content)
              /\ trace' = Append(trace, Exchange(response, 0))
    /\ BeginDates
    /\ UNCHANGED <<loader, other_run, wall_clock, committed, table, conn, runs, prev_run, today,
                   earliest_unfetched_date, query_failed, params, retry_count, calls,
                   puts, scheduled, result>>

\* lines 255-257 and 313: the text of a 200 response does not parse
FetchRaises(rich, max_pages) ==
    /\ pc = "fetch"
    /\ \E response \in Offered(rich, max_pages) :
          LET r == fetch_http_response(response)
          IN  /\ r.status_code = 200
              /\ extract_raises(r.xml_content)
              /\ full_xml_responses' = append_xml_content(full_xml_responses, r.xml_content)
              /\ trace' = Append(trace, Exchange(response, 0))
    /\ Raise
    /\ UNCHANGED <<loader, other_run, wall_clock, committed, conn, runs, prev_run, today,
                   earliest_unfetched_date, query_failed, params, retry_count,
                   date_list, idx, calls, puts, scheduled, result>>

\* line 185: insert_fetch_status(date_to_fetch)
MarkPending ==
    /\ pc = "loop"
    /\ idx <= Len(date_list)
    /\ ~Blocked(date_list[idx])
    /\ table' = insert_fetch_status(table, date_list[idx])
    /\ calls' = Append(calls, <<"mark_pending", date_list[idx]>>)
    /\ pc' = "process"
    /\ UNCHANGED <<loader, other_run, wall_clock, committed, conn, runs, prev_run, today,
                   earliest_unfetched_date, query_failed, params, retry_count,
                   full_xml_responses, trace, date_list, idx, puts, scheduled, result>>

\* lines 185 and 89: the first cursor.execute after a status query that raised
\* raises too, when what failed was the database (the connection is lost, or
\* the server has aborted the transaction); nothing catches it
StatementRaises ==
    /\ pc = "loop"
    /\ idx = 1
    /\ query_failed
    /\ Raise
    /\ UNCHANGED <<loader, other_run, wall_clock, committed, conn, runs, prev_run, today,
                   earliest_unfetched_date, query_failed, params, retry_count,
                   full_xml_responses, trace, date_list, idx, calls, puts, scheduled,
                   result>>

\* lines 185 and 89: the cursor.execute of insert_fetch_status raises (the
\* database is unavailable); nothing catches it
InsertRaises ==
    /\ pc = "loop"
    /\ InLoop
    /\ Raise
    /\ UNCHANGED <<loader, other_run, wall_clock, committed, conn, runs, prev_run, today,
                   earliest_unfetched_date, query_failed, params, retry_count,
                   full_xml_responses, trace, date_list, idx, calls, puts, scheduled,
                   result>>

\* lines 63, 65 and 103, 117: the cursor.execute of set_fetch_success or
\* set_fetch_failure raises, for a success after the upload went through;
\* nothing catches it
UpdateRaises ==
    /\ pc = "process"
    /\ LET from_date == date_list[idx]
       IN  puts' = IF process_success(from_date, full_xml_responses)
                   THEN puts \o upload_to_s3(from_date, full_xml_responses)
                   ELSE puts
    /\ Raise
    /\ UNCHANGED <<loader, other_run, wall_clock, committed, conn, runs, prev_run, today,
                   earliest_unfetched_date, query_failed, params, retry_count,
                   full_xml_responses, trace, date_list, idx, calls, scheduled, result>>

\* lines 186-190: process_fetch(date_to_fetch) runs to its end
ProcessFetch ==
    /\ pc = "process"
    /\ ~Blocked(date_list[idx])
    /\ LET from_date == date_list[idx]
           success == process_success(from_date, full_xml_responses)
       IN  IF success
           THEN /\ puts' = puts \o upload_to_s3(from_date, full_xml_responses)
                /\ table' = set_fetch_success(table, from_date)
                /\ calls' = Append(calls, <<"mark_success", from_date>>)
           ELSE /\ puts' = puts
                /\ table' = set_fetch_failure(table, from_date)
                /\ calls' = Append(calls, <<"mark_failure", from_date>>)
    /\ idx' = idx + 1
    /\ pc' = "loop"
    /\ UNCHANGED <<loader, other_run, wall_clock, committed, conn, runs, prev_run, today,
                   earliest_unfetched_date, query_failed, params, retry_count,
                   full_xml_responses, trace, date_list, scheduled, result>>

\* as UploadRaises, but process_fetch calls set_fetch_success before upload_to_s3
UploadRaises_after_marking ==
    /\ pc = "process"
    /\ process_success(date_list[idx], full_xml_responses)
    /\ \E n \in 0..(Len(full_xml_responses) - 1) :
          puts' = puts \o SubSeq(upload_to_s3(date_list[idx], full_xml_responses), 1, n)
    /\ calls' = Append(calls, <<"mark_success", date_list[idx]>>)
    /\ Raise
    /\ UNCHANGED <<loader, other_run, wall_clock, committed, conn, runs, prev_run, today,
                   earliest_unfetched_date, query_failed, params, retry_count,
                   full_xml_responses, trace, date_list, idx, scheduled, result>>

\* lines 62 and 330-335: a put_object of upload_to_s3 raises, after n of them went through
UploadRaises ==
    /\ pc = "process"
    /\ process_success(date_list[idx], full_xml_responses)
    /\ \E n \in 0..(Len(full_xml_responses) - 1) :
          puts' = puts \o SubSeq(upload_to_s3(date_list[idx], full_xml_responses), 1, n)
    /\ Raise
    /\ UNCHANGED <<loader, other_run, wall_clock, committed, conn, runs, prev_run, today,
                   earliest_unfetched_date, query_failed, params, retry_count,
                   full_xml_responses, trace, date_list, idx, calls, scheduled, result>>

\* as Finalize, but a run that harvested nothing reports an error status
Finalize_failing_on_empty_batch ==
    /\ pc = "loop"
    /\ idx > Len(date_list)
    /\ committed' = table
    /\ conn' = "closed"
    /\ result' = [statusCode |-> IF full_xml_responses = <<>> THEN 500 ELSE 200,
                  body |-> earliest_unfetched_date]
    /\ pc' = "done"
    /\ UNCHANGED <<loader, other_run, wall_clock, table, runs, prev_run, today, earliest_unfetched_date,
                   query_failed, params, retry_count, full_xml_responses, trace,
                   date_list, idx, calls, puts, scheduled>>

\* lines 194-199: finalize_db commits and closes, and the handler returns
Finalize ==
    /\ pc = "loop"
    /\ idx > Len(date_list)
    /\ committed' = table
    /\ conn' = "closed"
    /\ result' = [statusCode |-> 200, body |-> earliest_unfetched_date]
    /\ pc' = "done"
    /\ UNCHANGED <<loader, other_run, wall_clock, table, runs, prev_run, today, earliest_unfetched_date,
                   query_failed, params, retry_count, full_xml_responses, trace,
                   date_list, idx, calls, puts, scheduled>>

\* Midnight passes inside the handler, between the datetime.today() of
\* calculate_from_date (line 76, called at line 173) and the datetime.today()
\* of get_earliest_unfetched_date (line 134, called at line 176).
Midnight ==
    /\ pc = "cursor"
    /\ wall_clock = today + 1
    /\ wall_clock < FirstDay + Horizon
    /\ wall_clock' = wall_clock + 1
    /\ UNCHANGED <<loader, other_run, committed, table, conn, pc, runs, prev_run, today,
                   earliest_unfetched_date, query_failed, params, retry_count,
                   full_xml_responses, trace, date_list, idx, calls, puts, scheduled, result>>

-----------------------------------------------------------------------------
(* A second, overlapping invocation of lambda_handler *)

\* lines 171-174: the other invocation starts after this one and inserts its
\* target date; the insert waits while this invocation holds that date's lock
OtherInvoke ==
    /\ other_run.pc = "none"
    /\ pc \in {"cursor", "fetch", "loop", "process"}
    /\ LET t == calculate_from_date(wall_clock)
       IN  /\ t \notin Locked
           /\ other_run' = [NoOther EXCEPT !.pc = "cursor", !.today = t,
                                       !.writes = insert_fetch_status(committed, t) \ committed]
    /\ UNCHANGED <<loader, wall_clock, committed, table, conn, pc, runs, prev_run, today,
                   earliest_unfetched_date, query_failed, params, retry_count,
                   full_xml_responses, trace, date_list, idx, calls, puts, scheduled,
                   result>>

\* lines 176-180: its cursor query, its fetch and its date list
OtherFetch ==
    /\ other_run.pc = "cursor"
    /\ LET e == get_earliest_unfetched_date(View(other_run.writes), wall_clock, Days, FALSE)
       IN  \E ds \in PageDateSets(e, other_run.today) :
               other_run' = [other_run EXCEPT !.pc = "loop", !.harvested = ds,
                                      !.date_list = generate_date_list(e, other_run.today),
                                      !.idx = 1]
    /\ UNCHANGED <<loader, wall_clock, committed, table, conn, pc, runs, prev_run, today,
                   earliest_unfetched_date, query_failed, params, retry_count,
                   full_xml_responses, trace, date_list, idx, calls, puts, scheduled,
                   result>>

\* lines 183-190: one pass of its per-date loop: insert_fetch_status, then
\* set_fetch_success or set_fetch_failure; it waits while this invocation
\* holds the date's lock, and then works on the row as committed
OtherPass ==
    /\ other_run.pc = "loop"
    /\ other_run.idx <= Len(other_run.date_list)
    /\ LET d == other_run.date_list[other_run.idx]
           seen == insert_fetch_status(View(other_run.writes), d)
           done == IF d \in other_run.harvested THEN set_fetch_success(seen, d)
                   ELSE set_fetch_failure(seen, d)
       IN  /\ d \notin Locked
           /\ other_run' = [other_run EXCEPT !.idx = other_run.idx + 1,
                                      !.writes = {r \in other_run.writes : r.fetch_date # d}
                                                 \cup RowsOf(done, d)]
    /\ UNCHANGED <<loader, wall_clock, committed, table, conn, pc, runs, prev_run, today,
                   earliest_unfetched_date, query_failed, params, retry_count,
                   full_xml_responses, trace, date_list, idx, calls, puts, scheduled,
                   result>>

\* line 194: its finalize_db commits its writes; this invocation's statements
\* see them from then on, for the rows it has not written itself
OtherFinalize ==
    /\ other_run.pc = "loop"
    /\ other_run.idx > Len(other_run.date_list)
    /\ committed' = View(other_run.writes)
    /\ table' = {r \in table : r.fetch_date \in Locked}
                 \cup {r \in View(other_run.writes) : r.fetch_date \notin Locked}
    /\ other_run' = [other_run EXCEPT !.pc = "done", !.writes = {}]
    /\ UNCHANGED <<loader, wall_clock, conn, pc, runs, prev_run, today,
                   earliest_unfetched_date, query_failed, params, retry_count,
                   full_xml_responses, trace, date_list, idx, calls, puts, scheduled,
                   result>>

-----------------------------------------------------------------------------
(* Specifications *)

\* Invocations day after day, against an endpoint that pages, fails and garbles.
-----------------------------------------------------------------------------
(* The loader's lambda_handler and process_records *)

\* the state the loader is deployed in: the research table holds any rows
\* its unique index admits
LoaderInit ==
    /\ FetcherInit
    /\ loader \in {[NoLoad EXCEPT !.research = t, !.txn = t, !.before = t] : t \in ResearchTables}

\* lambda_handler (lines 27-31) reads the batch named by the event and
\* process_records opens a connection and a cursor (lines 98-99)
LoadInvoke(records) ==
    /\ loader.pc \in {"idle", "done", "raised"}
    /\ loader.loads < MaxLoads
    /\ loader' = [loader EXCEPT !.pc = "loading", !.records = records, !.i = 1,
                                !.txn = loader.research, !.before = loader.research,
                                !.loads = @ + 1]
    /\ UNCHANGED <<other_run, wall_clock, committed, table, conn, pc, runs, prev_run, today,
                   earliest_unfetched_date, query_failed, params, retry_count,
                   full_xml_responses, trace, date_list, idx, calls, puts, scheduled, result>>

\* one turn of process_records' loop (lines 100-101): process_record and
\* insert_research on the next record.  An exception passes every except
\* clause up to lambda_handler, which raises it: nothing is committed.
LoadRecord ==
    /\ loader.pc = "loading"
    /\ loader.i <= Len(loader.records)
    /\ LET out == insert_research(loader.txn, loader.records[loader.i])
       IN  loader' = IF out.raises
                     THEN [loader EXCEPT !.pc = "raised", !.txn = loader.research]
                     ELSE [loader EXCEPT !.txn = out.rows, !.i = @ + 1]
    /\ UNCHANGED <<other_run, wall_clock, committed, table, conn, pc, runs, prev_run, today,
                   earliest_unfetched_date, query_failed, params, retry_count,
                   full_xml_responses, trace, date_list, idx, calls, puts, scheduled, result>>

\* conn.commit() after the last record (lines 102-104), then the 200 (line 36)
LoadCommit ==
    /\ loader.pc = "loading"
    /\ loader.i > Len(loader.records)
    /\ loader' = [loader EXCEPT !.pc = "done", !.research = loader.txn]
    /\ UNCHANGED <<other_run, wall_clock, committed, table, conn, pc, runs, prev_run, today,
                   earliest_unfetched_date, query_failed, params, retry_count,
                   full_xml_responses, trace, date_list, idx, calls, puts, scheduled, result>>

LoaderNext ==
    \/ \E records \in Batches(MaxBatch) : LoadInvoke(records)
    \/ LoadRecord
    \/ LoadCommit

LoaderSpec == LoaderInit /\ [][LoaderNext]_vars

Next ==
    \/ Tick
    \/ Invoke(MaxRuns)
    \/ GetEarliest
    \/ FetchRetry(FALSE, DailyMaxPages)
    \/ FetchAbort(FALSE, DailyMaxPages)
    \/ FetchPage(FALSE, DailyMaxPages)
    \/ FetchLastPage(FALSE, DailyMaxPages)
    \/ FetchRaises(FALSE, DailyMaxPages)
    \/ MarkPending
    \/ StatementRaises
    \/ ProcessFetch
    \/ UploadRaises
    \/ Finalize

Spec == Init /\ [][Next]_vars

\* One invocation, against everything the endpoint can answer.
FetchNext ==
    \/ Invoke(1)
    \/ GetEarliest
    \/ FetchRetry(TRUE, FetchMaxPages)
    \/ FetchAbort(TRUE, FetchMaxPages)
    \/ FetchPage(TRUE, FetchMaxPages)
    \/ FetchLastPage(TRUE, FetchMaxPages)
    \/ FetchRaises(TRUE, FetchMaxPages)
    \/ MarkPending
    \/ StatementRaises
    \/ ProcessFetch
    \/ UploadRaises
    \/ Finalize

FetchSpec == Init /\ [][FetchNext]_vars

\* Invocations day after day that the host may kill inside the per-date loop.
KillNext ==
    \/ Tick
    \/ Invoke(MaxRuns)
    \/ GetEarliest
    \/ FetchRetry(FALSE, DailyMaxPages)
    \/ FetchAbort(FALSE, DailyMaxPages)
    \/ FetchPage(FALSE, DailyMaxPages)
    \/ FetchLastPage(FALSE, DailyMaxPages)
    \/ FetchRaises(FALSE, DailyMaxPages)
    \/ MarkPending
    \/ StatementRaises
    \/ ProcessFetch
    \/ UploadRaises
    \/ Kill
    \/ Finalize

KillSpec == Init /\ [][KillNext]_vars

\* Invocations day after day, the day changing at any moment an invocation
\* can tell: between its two readings of the clock.
MidnightNext ==
    \/ Tick
    \/ Invoke(MaxRuns)
    \/ Midnight
    \/ GetEarliest
    \/ FetchRetry(FALSE, DailyMaxPages)
    \/ FetchAbort(FALSE, DailyMaxPages)
    \/ FetchPage(FALSE, DailyMaxPages)
    \/ FetchLastPage(FALSE, DailyMaxPages)
    \/ FetchRaises(FALSE, DailyMaxPages)
    \/ MarkPending
    \/ StatementRaises
    \/ ProcessFetch
    \/ UploadRaises
    \/ Finalize

MidnightSpec == Init /\ [][MidnightNext]_vars

\* Invocations day after day against a database whose statements may fail.
\* (StatementRaises is the case of InsertRaises after a failed status query.)
StorageNext ==
    \/ Tick
    \/ Invoke(MaxRuns)
    \/ GetEarliest
    \/ FetchRetry(FALSE, DailyMaxPages)
    \/ FetchAbort(FALSE, DailyMaxPages)
    \/ FetchPage(FALSE, DailyMaxPages)
    \/ FetchLastPage(FALSE, DailyMaxPages)
    \/ FetchRaises(FALSE, DailyMaxPages)
    \/ MarkPending
    \/ InsertRaises
    \/ ProcessFetch
    \/ UploadRaises
    \/ UpdateRaises
    \/ Finalize

StorageSpec == Init /\ [][StorageNext]_vars

\* Invocations of one day, the trigger letting a second one start while the
\* first is in flight.
OverlapNext ==
    \/ Invoke(MaxRuns)
    \/ GetEarliest
    \/ FetchRetry(FALSE, DailyMaxPages)
    \/ FetchAbort(FALSE, DailyMaxPages)
    \/ FetchPage(FALSE, DailyMaxPages)
    \/ FetchLastPage(FALSE, DailyMaxPages)
    \/ FetchRaises(FALSE, DailyMaxPages)
    \/ MarkPending
    \/ StatementRaises
    \/ ProcessFetch
    \/ UploadRaises
    \/ Finalize
    \/ OtherInvoke
    \/ OtherFetch
    \/ OtherPass
    \/ OtherFinalize

OverlapSpec == Init /\ [][OverlapNext]_vars

-----------------------------------------------------------------------------
(* What the claims speak of *)

\* the handler returned
Completed == pc = "done"

\* fetch_data has returned
Fetched == pc \in {"loop", "process", "done"}

\* the batch of this run holds a record dated d
Harvested(d) == \E i \in DOMAIN full_xml_responses : d \in full_xml_responses[i].dates

\* the run's lookback candidates and its backfill range
Candidates == past_dates(wall_clock, Days)
BackfillRange == {date_list[i] : i \in DOMAIN date_list}

\* the dates the per-date loop has finished with
Processed == {date_list[k] : k \in 1..(idx - 1)}

Succeeded(rows, d) == \E r \in RowsOf(rows, d) : r.status = "success"

\* in rows, d has exactly one row, and it says success iff the batch holds d
JudgedByBatch(rows, d) ==
    /\ Cardinality(RowsOf(rows, d)) = 1
    /\ Succeeded(rows, d) <=> Harvested(d)

-----------------------------------------------------------------------------
(* C1 *)

\* C1 as stated: after a completed invocation every lookback candidate (the five
\* days ending yesterday) has exactly one FetchStatus row, and the row says
\* success iff the batch of that run holds a record dated that day.  Stated of
\* the runs whose status query did not raise, where every candidate has a row.
C1_EveryCandidateJudged ==
    Completed /\ ~query_failed => \A d \in Candidates : JudgedByBatch(committed, d)

\* C1 amended: after a completed invocation every date of the run's backfill
\* range E..yesterday has exactly one FetchStatus row, and the row says success
\* iff the batch of that run holds a record dated that day.
C1_BackfillRangeJudged ==
    Completed =>
        /\ BackfillRange = earliest_unfetched_date..today
        /\ \A d \in BackfillRange : JudgedByBatch(committed, d)

\* a completed run over several dates, one harvested on a later page only, one not at all
C1_Witness ==
    /\ Completed
    /\ Len(full_xml_responses) >= 2
    /\ \E d \in BackfillRange : Harvested(d) /\ d \notin full_xml_responses[1].dates
    /\ \E d \in BackfillRange : ~Harvested(d)

-----------------------------------------------------------------------------
(* The requests of one fetch_data *)

Requests == DOMAIN trace

Ok(i) == trace[i].status_code = 200
Failed(i) == trace[i].status_code # 200
Parses(i) == trace[i].text.well_formed
SaysMaintenance(i) == trace[i].text.maintenance

\* a 200 response that parses and carries a resumption token / carries none
TokenPage(i) == Ok(i) /\ Parses(i) /\ trace[i].text.token # None
LastPage(i) == Ok(i) /\ Parses(i) /\ trace[i].text.token = None

\* a 503 with no maintenance text and no Retry-After header
Busy(i) == /\ trace[i].status_code = 503
           /\ ~SaysMaintenance(i)
           /\ trace[i].retry_after = None

\* request i was the last one, and fetch_data is over
EndedAt(i) == i = Len(trace) /\ pc # "fetch"

\* after request i another request was or will be sent
Continued(i) == i < Len(trace) \/ pc = "fetch"

-----------------------------------------------------------------------------
(* C2 *)

\* C2: when the first N responses are 200 with a resumption token and response
\* N+1 is 200 without one, exactly N+1 requests are issued and the list
\* fetch_data returns is those N+1 payloads in the order they were received.
C2_PaginationInOrder ==
    \A n \in 0..Len(trace) :
        /\ n + 1 \in Requests
        /\ \A i \in 1..n : TokenPage(i)
        /\ LastPage(n + 1)
        => /\ EndedAt(n + 1)
           /\ full_xml_responses = [i \in 1..(n + 1) |-> trace[i].text]

\* two token pages and a last page were received, and fetch_data returned the three
C2_Witness ==
    /\ pc = "loop"
    /\ Len(trace) = 3
    /\ TokenPage(1) /\ TokenPage(2) /\ LastPage(3)
    /\ Len(full_xml_responses) = 3

-----------------------------------------------------------------------------
(* C3 *)

\* C3: with the schedule [30, 120], three consecutive 503 responses (no
\* maintenance text, no retry hint), the first of them the first failure of the
\* fetch: 30 seconds are slept after the first, 120 after the second, and the
\* third ends the fetch with no sleep and no fourth request.
C3_BackoffThenAbort ==
    \A i \in Requests :
        Busy(i) /\ (\A j \in 1..(i - 1) : Ok(j))
        => /\ trace[i].slept = 30
           /\ (i + 1 \in Requests /\ Busy(i + 1) => trace[i + 1].slept = 120)
           /\ (i + 2 \in Requests /\ Busy(i + 1) /\ Busy(i + 2)
                  => trace[i + 2].slept = 0 /\ EndedAt(i + 2))

\* three 503 in a row were received and the fetch is over
C3_Witness ==
    /\ pc = "loop"
    /\ Len(trace) = 3
    /\ Busy(1) /\ Busy(2) /\ Busy(3)
    /\ full_xml_responses = <<>>

-----------------------------------------------------------------------------
(* C4 *)

FailedBefore(i) == {j \in 1..(i - 1) : Failed(j)}
TokenPages == {i \in Requests : TokenPage(i)}

\* C4: in one fetch_data at most Len(BackoffTimes) = 2 failed requests are
\* retried, counted over the whole pagination sequence; the next failure after
\* that ends the loop; and the number of requests never exceeds the number of
\* token-bearing pages received plus the two retries plus one, so the loop ends
\* when the endpoint stops issuing token-bearing pages.
C4_BoundedRetries ==
    /\ Cardinality({i \in Requests : Failed(i) /\ Continued(i)}) <= Len(BackoffTimes)
    /\ retry_count <= Len(BackoffTimes)
    /\ \A i \in Requests :
          Failed(i) /\ Cardinality(FailedBefore(i)) >= Len(BackoffTimes) => EndedAt(i)
    /\ Len(trace) <= Cardinality(TokenPages) + Len(BackoffTimes) + 1
    /\ pc = "fetch" => Len(trace) <= Cardinality(TokenPages) + Len(BackoffTimes)

\* a retry before the first page, a retry on a continuation, and the third failure ends it
C4_Witness ==
    /\ pc = "loop"
    /\ Len(trace) = 5
    /\ Busy(1) /\ TokenPage(2) /\ Busy(3) /\ TokenPage(4) /\ Busy(5)

-----------------------------------------------------------------------------
(* C5 *)

\* C5 as stated: a response whose text says "maintenance" ends the fetch at
\* once, with no sleep and no further request, whatever its status code.
C5_AnyMaintenanceAborts ==
    \A i \in Requests : SaysMaintenance(i) => trace[i].slept = 0 /\ EndedAt(i)

\* C5 amended: a response with a status other than 200 whose text says
\* "maintenance" ends the fetch at once, with no sleep and no further request,
\* whatever that status and wherever the backoff schedule stands.
C5_FailedMaintenanceAborts ==
    \A i \in Requests :
        Failed(i) /\ SaysMaintenance(i) => trace[i].slept = 0 /\ EndedAt(i)

\* a 503 that says "maintenance" came while the schedule had values left, after a page
C5_Witness ==
    /\ Fetched
    /\ Len(trace) = 2
    /\ TokenPage(1)
    /\ trace[2].status_code = 503 /\ SaysMaintenance(2)
    /\ retry_count = 0

-----------------------------------------------------------------------------
(* C6 *)

\* C6: when the text of a 200 response is not well-formed XML, nothing is raised:
\* the pagination ends there, fetch_data returns, and the handler goes on to the
\* per-date loop.
C6_MalformedEndsPagination ==
    \A i \in Requests :
        Ok(i) /\ ~Parses(i) => /\ i = Len(trace)
                               /\ Fetched \/ (pc = "crashed" /\ idx > 0)

-----------------------------------------------------------------------------
(* C7 *)

\* C7: a retried 503 that carries a Retry-After header is followed by a sleep of
\* the header's value; the backoff schedule is used only when there is no header.
C7_RetryAfterVerbatim ==
    \A i \in Requests :
        /\ trace[i].status_code = 503
        /\ trace[i].retry_after # None
        /\ Continued(i)
        => trace[i].slept = trace[i].retry_after

-----------------------------------------------------------------------------
(* C8 *)

\* r is the earliest of the `days` candidates before `now` that rows does not
\* show as success, or yesterday when it shows them all as success
IsEarliestUnfetched(rows, now, days, r) ==
    LET candidates == {now - i : i \in 1..days}
        open == {c \in candidates : ~Succeeded(rows, c)}
    IN  /\ r \in candidates
        /\ IF open = {} THEN r = now - 1
           ELSE r \in open /\ \A c \in open : r <= c

\* C8: get_earliest_unfetched_date with lookback D returns the earliest of the
\* candidates today-1..today-D whose FetchStatus is not success (no row, pending
\* and failure alike), and yesterday when all D are success; the result is
\* always a candidate.  Checked while the table is as the query saw it: of the
\* date the handler got (D = 5), and of every D up to MaxLookback.
C8_EarliestUnfetched ==
    /\ pc \notin {"idle", "cursor", "killed"} => earliest_unfetched_date \in Candidates
    /\ pc = "fetch" =>
          /\ ~query_failed
                => IsEarliestUnfetched(table, wall_clock, Days, earliest_unfetched_date)
          /\ \A D \in 1..MaxLookback :
                /\ IsEarliestUnfetched(table, wall_clock, D,
                       get_earliest_unfetched_date(table, wall_clock, D, FALSE))
                /\ get_earliest_unfetched_date(table, wall_clock, D, TRUE)
                      \in past_dates(wall_clock, D)

\* the cursor skipped older candidates that are success and returned a date that
\* has no row yet and is not yesterday
C8_Witness ==
    /\ pc = "fetch" /\ ~query_failed
    /\ earliest_unfetched_date < wall_clock - 1
    /\ RowsOf(table, earliest_unfetched_date) = {}
    /\ \E c \in Candidates : c < earliest_unfetched_date /\ Succeeded(table, c)

\* all five candidates are success and the cursor returned yesterday
C8_AllFetched ==
    /\ pc = "fetch" /\ ~query_failed
    /\ \A c \in Candidates : Succeeded(table, c)
    /\ earliest_unfetched_date = wall_clock - 1

-----------------------------------------------------------------------------
(* C9 *)

Mar06 == FirstDay - 1
Mar07 == FirstDay
Mar11 == FirstDay + 4
Mar12 == FirstDay + 5

\* the run of 2024-03-12 (target date 2024-03-11) on a table whose only success
\* is 2024-03-06, its status query not raising
BackfillScenario ==
    /\ wall_clock = Mar12
    /\ pc \in {"loop", "process"}
    /\ ~query_failed
    /\ {r.fetch_date : r \in {q \in committed : q.status = "success"}} = {Mar06}

\* the per-date loop has processed every date of date_list
LoopOver == pc = "loop" /\ idx > Len(date_list)

\* the dates mark_pending was called with, in call order
PendingCalls ==
    LET IsPending(c) == c[1] = "mark_pending"
        p == SelectSeq(calls, IsPending)
    IN  [k \in DOMAIN p |-> p[k][2]]

\* what process_fetch must have called for d, judging d against the whole batch
Verdict(d) == IF Harvested(d) THEN <<"mark_success", d>> ELSE <<"mark_failure", d>>

\* the handler's calls in full: mark_pending(target), then for each date of the
\* range in ascending order mark_pending(d) and the verdict on d
ExpectedCalls ==
    [k \in 1..(2 * Len(date_list) + 1) |->
        IF k = 1 THEN <<"mark_pending", today>>
        ELSE IF k % 2 = 0 THEN <<"mark_pending", date_list[k \div 2]>>
        ELSE Verdict(date_list[k \div 2])]

\* C9 as stated: in the scenario the range is 03-07..03-11, five mark_pending
\* calls are issued, in ascending date order, and each date is judged against
\* the same complete batch.
C9_FivePendingCalls ==
    BackfillScenario /\ LoopOver =>
        /\ date_list = [i \in 1..5 |-> Mar07 + (i - 1)]
        /\ PendingCalls = date_list
        /\ \A d \in BackfillRange :
              \E k \in DOMAIN calls : calls[k] = Verdict(d)

\* C9 amended: in the scenario the range is 03-07..03-11; after the handler's
\* first mark_pending(03-11), made before the cursor is asked, the loop issues
\* five mark_pending calls in ascending date order (six calls in all), each
\* followed by the verdict on its date against the same complete batch.
C9_BackfillScenario ==
    BackfillScenario =>
        /\ date_list = [i \in 1..5 |-> Mar07 + (i - 1)]
        /\ today = Mar11
        /\ Len(calls) <= Len(ExpectedCalls)
        /\ calls = SubSeq(ExpectedCalls, 1, Len(calls))
        /\ Len(calls) = 2 * idx - (IF pc = "loop" THEN 1 ELSE 0)
        /\ LoopOver => PendingCalls = <<Mar11>> \o date_list

\* the scenario's loop is over with a two-page batch: one date harvested on the
\* second page only, one date not harvested
C9_Witness ==
    /\ BackfillScenario /\ LoopOver
    /\ Len(full_xml_responses) = 2
    /\ \E d \in BackfillRange : Harvested(d) /\ d \notin full_xml_responses[1].dates
    /\ \E d \in BackfillRange : ~Harvested(d)

-----------------------------------------------------------------------------
(* C10 *)

\* process_fetch was called for d in this invocation
Judged(d) ==
    \E k \in DOMAIN calls : calls[k] \in {<<"mark_success", d>>, <<"mark_failure", d>>}

\* this invocation runs the day after the previous one
DayAfterPreviousRun == pc # "idle" /\ prev_run.day = wall_clock - 1

\* C10 as stated: with one invocation per day, every date left failure or pending
\* by a run is in the next run's backfill range and is judged again by it.
\* Stated of the next runs that complete and whose status query did not raise.
C10_NeverDropped ==
    DayAfterPreviousRun /\ Completed /\ ~query_failed =>
        \A d \in prev_run.unsuccessful : d \in BackfillRange /\ Judged(d)

\* C10 amended: with one invocation per day, every date left failure or pending
\* by a run that is still one of the next run's five lookback candidates is in
\* that run's backfill range when its status query does not raise, and is
\* judged again when that run completes.
C10_RetriedWithinLookback ==
    DayAfterPreviousRun /\ ~query_failed =>
        \A d \in prev_run.unsuccessful \cap Candidates :
            /\ Fetched => d \in BackfillRange
            /\ Completed => Judged(d)

\* a date that yesterday's run left as failure was judged again today and is success now
C10_Witness ==
    /\ DayAfterPreviousRun /\ Completed /\ ~query_failed
    /\ \E d \in prev_run.unsuccessful \cap Candidates :
          Judged(d) /\ Succeeded(committed, d)

-----------------------------------------------------------------------------
(* C11 *)

\* the invocation was killed while its per-date loop stood at date d
KilledOn(d) == pc = "killed" /\ InLoop /\ date_list[idx] = d

\* C11: when an invocation is killed inside the per-date loop, the committed
\* FetchStatus of the date it was processing is pending; the next invocation's
\* cursor returns a date no later than that date, and that invocation, when it
\* completes, has judged the date again.
C11_KilledLeavesPending ==
    /\ \A d \in BackfillRange :
          KilledOn(d) => \E r \in RowsOf(committed, d) : r.status = "pending"
    /\ prev_run.killed_on # None =>
          /\ Fetched => earliest_unfetched_date <= prev_run.killed_on
          /\ Completed => Judged(prev_run.killed_on)

-----------------------------------------------------------------------------
(* C12 *)

\* the step is part of the pass of the per-date loop for the date at idx:
\* its mark_pending (line 185) or its process_fetch (line 186) running to its end
PassStep == pc \in {"loop", "process"} /\ InLoop /\ pc' \in {"loop", "process"}

\* C12: a step of the loop's pass for date d (mark_pending, then mark_success or
\* mark_failure) leaves the FetchStatus row of every other date as it was: no
\* such row is added, removed or changed, so a success row of another date is
\* never turned into failure by the pass for d.
C12_OtherRowsUnchanged ==
    [][PassStep =>
          \A r \in table \cup table' :
              r.fetch_date # date_list[idx] => r \in table /\ r \in table']_vars

\* the pass for a date has just marked it failure while another date, success
\* since an earlier run, is success still
C12_Witness ==
    /\ pc = "loop" /\ idx > 1
    /\ calls[Len(calls)] = <<"mark_failure", date_list[idx - 1]>>
    /\ \E r \in committed :
          /\ r.status = "success"
          /\ r.fetch_date # date_list[idx - 1]
          /\ r \in table

-----------------------------------------------------------------------------
(* C13 *)

\* the dates an invocation can speak of
Calendar == (FirstDay - Days - 1)..(FirstDay + Horizon)

\* each date has at most one row in rows
OneRowPerDate(rows) == Cardinality({r.fetch_date : r \in rows}) = Cardinality(rows)

\* C13: mark_pending is idempotent.  In every reachable state each date has at
\* most one row, in the transaction and in the committed table.  On the table
\* as every call of mark_pending leaves it: mark_pending of a date that has a
\* row, whatever its status and retry_count, leaves the table as it is;
\* mark_pending of a date without one adds one pending row, and a second call
\* changes nothing.  In the loop, the row a date had when the run began is still
\* that row after the run called mark_pending for it.
C13_MarkPendingIdempotent ==
    /\ OneRowPerDate(table)
    /\ OneRowPerDate(committed)
    /\ pc \in {"cursor", "process"} =>
          /\ {r.fetch_date : r \in table} \subseteq Calendar
          /\ \A d \in Calendar :
                LET once == insert_fetch_status(table, d)
                IN  /\ RowsOf(table, d) # {} => once = table
                    /\ RowsOf(table, d) = {} => once = table \cup {Row(d, "pending", 0)}
                    /\ insert_fetch_status(once, d) = once
    /\ pc = "process" /\ RowsOf(committed, date_list[idx]) # {}
          => RowsOf(table, date_list[idx]) = RowsOf(committed, date_list[idx])

\* the loop has called mark_pending for a date whose row, from an earlier run,
\* says failure with a retry_count above 0, and the row is as it was
C13_Witness ==
    /\ pc = "process"
    /\ calls[Len(calls)] = <<"mark_pending", date_list[idx]>>
    /\ \E r \in RowsOf(committed, date_list[idx]) :
          r.status = "failure" /\ r.retry_count > 0 /\ RowsOf(table, date_list[idx]) = {r}

-----------------------------------------------------------------------------
(* C14 *)

\* every row of rows has a row of the same date in later, its retry_count no smaller
KeepsRows(rows, later) ==
    \A r \in rows :
        \E q \in later : q.fetch_date = r.fetch_date /\ q.retry_count >= r.retry_count

\* the step called the mutator op for date d
Called(op, d) ==
    \/ calls' = Append(calls, <<op, d>>)
    \/ runs' = runs + 1 /\ calls' = <<<<op, d>>>>

\* the step ended the invocation with an exception, and the server rolled back
RolledBack == pc' = "crashed"

\* C14: retry_count is a natural number in every row.  mark_pending adds a row
\* with retry_count 0 or leaves the date's row as it is; mark_failure adds
\* exactly 1 to the date's retry_count; mark_success leaves it as it is.  No
\* step of a transaction removes a row or lowers a retry_count, and neither does
\* any change of the committed table.
C14_RetryCountGrowsByOne ==
    [][/\ \A r \in table' \cup committed' : r.retry_count \in Nat
       /\ KeepsRows(committed, committed')
       /\ ~RolledBack => KeepsRows(table, table')
       /\ \A d \in Calendar :
             /\ Called("mark_pending", d) =>
                   RowsOf(table', d) = IF RowsOf(table, d) = {}
                                       THEN {Row(d, "pending", 0)} ELSE RowsOf(table, d)
             /\ Called("mark_failure", d) =>
                   \E r \in RowsOf(table, d) :
                       RowsOf(table', d) = {Row(d, "failure", r.retry_count + 1)}
             /\ Called("mark_success", d) =>
                   \E r \in RowsOf(table, d) :
                       RowsOf(table', d) = {Row(d, "success", r.retry_count)}]_vars

\* a date that failed in two runs has retry_count 2, and a date that failed in
\* one run and succeeded in the next is success with retry_count 1
C14_Witness ==
    /\ Completed
    /\ \E r \in committed : r.status = "failure" /\ r.retry_count = 2
    /\ \E r \in committed : r.status = "success" /\ r.retry_count = 1

-----------------------------------------------------------------------------
(* C15 *)

\* the put_object calls of this invocation whose key names date d, in call order
PutsUnder(d) ==
    LET Names(p) == p.key[1] = d
    IN  SelectSeq(puts, Names)

MarkedSuccess(d) == \E k \in DOMAIN calls : calls[k] = <<"mark_success", d>>
MarkedFailure(d) == \E k \in DOMAIN calls : calls[k] = <<"mark_failure", d>>

\* the whole batch under d's keys: page i of the batch under key (d, i - 1)
WholeBatchUnder(d) ==
    [i \in 1..Len(full_xml_responses) |->
        [key |-> <<d, i - 1>>, body |-> full_xml_responses[i].id]]

\* C15: in a run the blob store receives data under date d's key if and only if
\* d was judged success.  For a date marked success, what was put under its key
\* is the entire batch, every page, in pagination order, whether or not the page
\* holds a record of d; for a date marked failure nothing was put; nothing is
\* ever put under the key of a date the batch does not hold, and nothing at
\* all before the per-date loop.  Looked at whenever process_fetch has returned
\* or raised, of the dates the loop has reached and of every key written.
C15_WholeBatchIffSuccess ==
    IF idx = 0 THEN puts = <<>>
    ELSE pc # "process" =>
         \A d \in Processed \cup {puts[k].key[1] : k \in DOMAIN puts} :
            LET under == PutsUnder(d)
                success == MarkedSuccess(d)
            IN  /\ success => under = WholeBatchUnder(d) /\ under # <<>>
                /\ MarkedFailure(d) => under = <<>>
                /\ under # <<>> => Harvested(d) /\ d \in BackfillRange
                /\ Completed => (under # <<>> <=> success)

\* a completed run with a three-page batch: one date, held by the last page
\* only, is success with all three pages put; another date is failure
C15_Witness ==
    /\ Completed
    /\ Len(full_xml_responses) = 3
    /\ \E d \in BackfillRange :
          /\ MarkedSuccess(d)
          /\ d \notin full_xml_responses[1].dates \cup full_xml_responses[2].dates
          /\ Len(PutsUnder(d)) = 3
    /\ \E d \in BackfillRange : MarkedFailure(d)

-----------------------------------------------------------------------------
(* C16 *)

\* C16: for each date marked success in a run exactly one blob-store write is
\* made, holding the whole batch as one object, however many pages the batch has.
C16_OneWritePerDate ==
    \A d \in Calendar : MarkedSuccess(d) => Len(PutsUnder(d)) = 1

-----------------------------------------------------------------------------
(* C17 *)

\* request i failed and the backoff policy returned a wait duration for it
Retried(i) == Failed(i) /\ trace[i].slept # 0

\* the payloads of the 200 responses among the first n exchanges, in order
PagesUpTo(n) ==
    LET Is200(x) == x.status_code = 200
        ok == SelectSeq(SubSeq(trace, 1, n), Is200)
    IN  [k \in DOMAIN ok |-> ok[k].text]

\* the parameters request i must carry: the initial tuple while no page was
\* received, then the resumption token of the latest page
ParamsDue(i) ==
    LET before == {j \in 1..(i - 1) : Ok(j)}
    IN  IF before = {} THEN initial_params("set", earliest_unfetched_date)
        ELSE continuation_params(
                 trace[CHOOSE j \in before : \A k \in before : k <= j].text.token)

\* C17: when the backoff policy returns a wait duration for a failed request,
\* the next request carries exactly the parameters of the failed one: the
\* initial tuple, or the same resumption token when the failure was on a
\* continuation page; and the batch collected so far is not changed by the
\* failure: it is always the payloads of the 200 responses, in order.
C17_RetrySameParams ==
    pc \in {"fetch", "loop", "process", "done"} =>
        /\ \A i \in Requests :
              Retried(i) =>
                  /\ trace[i].params = ParamsDue(i)
                  /\ i + 1 \in Requests => trace[i + 1].params = trace[i].params
                  /\ i = Len(trace) => pc = "fetch" /\ params = trace[i].params
        /\ full_xml_responses = PagesUpTo(Len(trace))

\* the request after a token page failed and was retried with that page's
\* token, and the retry brought the second page
C17_Witness ==
    /\ Len(trace) = 3
    /\ TokenPage(1) /\ Busy(2) /\ Retried(2) /\ Ok(3)
    /\ trace[2].params = continuation_params(trace[1].text.token)
    /\ trace[3].params = trace[2].params
    /\ full_xml_responses = <<trace[1].text, trace[3].text>>

-----------------------------------------------------------------------------
(* C18 *)

\* fetch_data has returned because a failed request ended it
Aborted == Fetched /\ Len(trace) > 0 /\ Failed(Len(trace))

\* C18: when the fetch aborts after one or more successful pages, fetch_data
\* returns exactly those pages, in order, none dropped; they are the batch each
\* date of the range is judged against, and the batch put under the key of each
\* date marked success.
C18_PartialResultsKept ==
    Aborted /\ (\E i \in Requests : Ok(i)) =>
        LET pages == PagesUpTo(Len(trace) - 1)
        IN  /\ full_xml_responses = pages
            /\ Len(full_xml_responses) = Cardinality({i \in Requests : Ok(i)})
            /\ \A d \in Processed :
                  LET success == MarkedSuccess(d)
                  IN  /\ success <=> \E i \in Requests : Ok(i) /\ d \in trace[i].text.dates
                      /\ success \/ MarkedFailure(d)
                      /\ success =>
                            PutsUnder(d) = [k \in 1..Len(full_xml_responses) |->
                                               [key |-> <<d, k - 1>>, body |-> pages[k].id]]

\* two pages were received, the third request failed for good, and the run
\* completed with a date, held by the second page only, marked success
C18_Witness ==
    /\ Completed /\ Aborted
    /\ Len(trace) = 3 /\ TokenPage(1) /\ TokenPage(2)
    /\ \E d \in BackfillRange :
          /\ d \in trace[2].text.dates /\ d \notin trace[1].text.dates
          /\ MarkedSuccess(d)
          /\ Len(PutsUnder(d)) = 2

-----------------------------------------------------------------------------
(* C19 *)

\* a failed response that is not a 503 and does not say "maintenance"
OtherFailure(i) ==
    /\ trace[i].status_code \notin {200, 503}
    /\ ~SaysMaintenance(i)

\* C19: a failed response whose status is neither 200 nor 503 and whose text
\* has no maintenance notice ends the fetch at once: no sleep, no retry, no
\* further request, no reschedule, wherever the backoff schedule stands.
C19_OtherStatusAborts ==
    \A i \in Requests :
        OtherFailure(i) =>
            /\ trace[i].slept = 0
            /\ EndedAt(i)
            /\ retry_count = Cardinality({j \in 1..(i - 1) : Retried(j)})
            /\ scheduled = 0

\* a 500 came after a page and one retried 503, with a backoff value still
\* unused, and the fetch ended there
C19_Witness ==
    /\ Fetched
    /\ Len(trace) = 3
    /\ TokenPage(1) /\ Busy(2) /\ Retried(2)
    /\ trace[3].status_code = 500 /\ OtherFailure(3)
    /\ retry_count = 1

-----------------------------------------------------------------------------
(* C20 *)

\* the step is a call of get_earliest_unfetched_date whose status query raises
QueryRaises == ~query_failed /\ query_failed'

\* C20: when the status query inside get_earliest_unfetched_date raises, the
\* function returns yesterday, no exception reaches the handler, which goes on
\* to fetch from that date, and the FetchStatus table is left as it was.
C20_QueryFailureDegrades ==
    [][QueryRaises =>
          /\ earliest_unfetched_date' = wall_clock - 1
          /\ pc = "cursor" /\ pc' = "fetch"
          /\ params' = initial_params("set", wall_clock - 1)
          /\ table' = table /\ committed' = committed]_vars

\* the query raised on a table with an older candidate that is not success,
\* and the run completed with yesterday as its only date
C20_Witness ==
    /\ Completed /\ query_failed
    /\ \E c \in Candidates : c < today /\ ~Succeeded(committed, c)
    /\ result.body = today
    /\ date_list = <<today>>

-----------------------------------------------------------------------------
(* C21 *)

\* the endpoint has answered this invocation with failures only, and the
\* database has not failed
OnlyEndpointFailures ==
    /\ pc \in {"fetch", "loop", "process", "done", "crashed"}
    /\ Len(trace) > 0
    /\ \A i \in Requests : Failed(i)
    /\ ~query_failed

\* C21: an invocation that meets only endpoint failures (503 until the schedule
\* is used up, a maintenance notice, another error status) never ends with an
\* exception: its batch is empty, nothing is put, every date it has processed
\* is marked failure, and when it completes it has returned statusCode 200 with
\* a body naming the earliest unfetched date, every date of the range failure.
C21_EndpointFailuresComplete ==
    OnlyEndpointFailures =>
        /\ pc # "crashed"
        /\ full_xml_responses = <<>>
        /\ puts = <<>>
        /\ \A d \in Processed : MarkedFailure(d) /\ ~MarkedSuccess(d)
        /\ Completed =>
              /\ result = [statusCode |-> 200, body |-> earliest_unfetched_date]
              /\ Processed = BackfillRange
              /\ BackfillRange = earliest_unfetched_date..today
              /\ \A d \in BackfillRange :
                    \E r \in RowsOf(committed, d) : r.status = "failure"
              /\ conn = "closed"

\* three 503 used the schedule up, the batch is empty, and the handler
\* returned 200 with all five dates of the range failure
C21_Witness ==
    /\ Completed /\ OnlyEndpointFailures
    /\ Len(trace) = 3 /\ Busy(1) /\ Busy(2) /\ Busy(3)
    /\ result.statusCode = 200 /\ result.body = earliest_unfetched_date
    /\ Cardinality(BackfillRange) = 5

\* a maintenance notice ended the fetch and the handler returned 200
C21_MaintenanceCompletes ==
    /\ Completed /\ OnlyEndpointFailures
    /\ SaysMaintenance(Len(trace))
    /\ result.statusCode = 200

-----------------------------------------------------------------------------
(* C22 *)

\* C22: on every exit path of lambda_handler, the normal return and every
\* exception that leaves it alike, the connection opened at the start of the
\* invocation has been closed.
C22_ConnectionReleased ==
    pc \in {"done", "crashed"} => conn = "closed"

-----------------------------------------------------------------------------
(* C23 *)

\* the invocation ended with the exception of a FetchStatus mutator: of
\* mark_pending for the date at idx, or of mark_success / mark_failure for it
PendingRaised == pc = "crashed" /\ InLoop /\ Len(calls) = 2 * idx - 1
VerdictRaised ==
    /\ pc = "crashed" /\ InLoop /\ Len(calls) = 2 * idx
    /\ PutsUnder(date_list[idx]) =
           IF Harvested(date_list[idx]) THEN WholeBatchUnder(date_list[idx]) ELSE <<>>

\* C23: a FetchStatus update that raises (mark_pending, mark_success or
\* mark_failure) is handled where it happens and not raised: no invocation ends
\* with the exception of one of them.
C23_UpdateFailureHandled ==
    ~PendingRaised /\ ~VerdictRaised

-----------------------------------------------------------------------------
(* C24 *)

\* the failed responses of this fetch whose text says "maintenance"
MaintenanceFailures == {i \in Requests : Failed(i) /\ SaysMaintenance(i)}

\* C24: a failed response whose body gives a maintenance notice makes the
\* policy call schedule_for_later exactly once for it, and the invocation does
\* not retry inline: no sleep follows, and the response is the last of its
\* fetch.  schedule_for_later is called for no other response.
C24_MaintenanceReschedules ==
    pc \in {"fetch", "loop", "process", "done", "crashed"} =>
        /\ scheduled = Cardinality(MaintenanceFailures)
        /\ scheduled <= 1
        /\ \A i \in MaintenanceFailures :
              /\ trace[i].slept = 0
              /\ EndedAt(i)
              /\ \A j \in Requests : trace[j].params = trace[i].params => j <= i

\* a 503 was retried, the retry met a 404 with a maintenance notice; one
\* reschedule was asked for and the run completed
C24_Witness ==
    /\ Completed
    /\ Len(trace) = 2
    /\ Busy(1) /\ Retried(1)
    /\ trace[2].status_code = 404 /\ SaysMaintenance(2)
    /\ scheduled = 1

-----------------------------------------------------------------------------
(* C25 *)

InitialShape(p) ==
    /\ DOMAIN p = {"verb", "set", "metadataPrefix", "from"}
    /\ p.verb = "ListRecords" /\ p.metadataPrefix = "oai_dc"
    /\ p.from = earliest_unfetched_date

ContinuationShape(p) ==
    /\ DOMAIN p = {"verb", "resumptionToken"}
    /\ p.verb = "ListRecords"

\* C25: every request of a fetch has the initial shape {verb=ListRecords, set,
\* metadataPrefix=oai_dc, from=E} or the continuation shape {verb=ListRecords,
\* resumptionToken} with nothing else.  The first request is initial; a
\* continuation carries the token of the latest successful response before it,
\* which outside a retry is the immediately preceding response; and once a
\* token was received no later request is of the initial shape.  Looked at
\* after every request and when fetch_data has returned or raised: the
\* requests of a fetch are the same from then on.
C25_RequestShapes ==
    pc = "fetch" \/ (pc = "loop" /\ idx = 1) \/ (pc = "crashed" /\ idx = 0) =>
        /\ \A i \in Requests :
              LET p == trace[i].params
              IN  /\ InitialShape(p) \/ ContinuationShape(p)
                  /\ p = ParamsDue(i)
                  /\ InitialShape(p) <=> \A j \in 1..(i - 1) : ~TokenPage(j)
                  /\ i > 1 /\ TokenPage(i - 1) =>
                        /\ ContinuationShape(p)
                        /\ p.resumptionToken = trace[i - 1].text.token
        /\ pc = "fetch" => params = ParamsDue(Len(trace) + 1)

\* three requests: the initial one, then two continuations, each with the
\* token of the page before it
C25_Witness ==
    /\ Len(trace) = 3
    /\ TokenPage(1) /\ TokenPage(2)
    /\ InitialShape(trace[1].params)
    /\ ContinuationShape(trace[2].params) /\ ContinuationShape(trace[3].params)
    /\ trace[3].params.resumptionToken = trace[2].text.token
    /\ trace[2].params.resumptionToken # trace[3].params.resumptionToken

-----------------------------------------------------------------------------
(* C26 *)

\* a second invocation has started while one was in flight
Overlapped == other_run.pc # "none"

\* a date this invocation marked success is not success in the committed table
\* after it returned
SuccessLost ==
    Completed /\ \E d \in BackfillRange : MarkedSuccess(d) /\ ~Succeeded(committed, d)

\* a date was marked failure more often than invocations were triggered one
\* after the other
CountedTwice == \E r \in committed : r.retry_count > runs

\* C26: the loop is correct only with one invocation in flight.  While no
\* second invocation has started: each date gets at most one verdict per run,
\* a date the run marked success is success in its transaction and, after the
\* run returned, in the committed table, and no retry_count exceeds the number
\* of runs.  (With an overlapping invocation both are lost: see the witnesses.)
C26_RaceOnlyWithOverlap ==
    ~Overlapped =>
        /\ ~SuccessLost
        /\ ~CountedTwice
        /\ pc \in {"loop", "process"} =>
              \A d \in BackfillRange :
                  /\ MarkedSuccess(d) => Succeeded(table, d)
                  /\ ~(MarkedSuccess(d) /\ MarkedFailure(d))
                  /\ \A r \in RowsOf(table, d) : r.retry_count <= runs

\* two invocations overlapped: this one marked a date success and returned,
\* the other then wrote failure over it and committed
C26_Witness ==
    /\ Overlapped /\ other_run.pc = "done"
    /\ SuccessLost

\* two invocations overlapped and both added to the retry_count of a date
C26_CountedByBoth ==
    /\ Overlapped /\ other_run.pc = "done"
    /\ Completed
    /\ CountedTwice

-----------------------------------------------------------------------------
(* C27 *)

\* the handler of the loader has ended, by returning or by raising
Loaded == loader.pc \in {"done", "raised"}

\* the rows of the research table under an identifier
ResearchRowsOf(rows, id) == {r \in rows : r.unique_identifier = id}

\* the last record of the batch with this identifier
LastLoaded(id) ==
    LET ks == {k \in DOMAIN loader.records : loader.records[k].identifier = id}
    IN  loader.records[CHOOSE k \in ks : \A j \in ks : j <= k]

\* C27: the research table never holds two rows with one unique_identifier
C27_OneRowPerIdentifier ==
    \A id \in 1..MaxIdentifier : Cardinality(ResearchRowsOf(loader.research, id)) <= 1

\* C27: the loader deduplicates on the external identifier: the research table
\* holds at most one row per unique_identifier, and once a batch of complete
\* records has been loaded, every record of it whose identifier was in the
\* table before the load has left exactly one row under that identifier, with
\* the field values loaded last for it
C27_LoaderDeduplicates ==
    /\ \A r1, r2 \in loader.research : r1.unique_identifier = r2.unique_identifier => r1 = r2
    /\ (Loaded /\ \A k \in DOMAIN loader.records : loader.records[k].complete)
        => \A k \in DOMAIN loader.records :
              LET id == loader.records[k].identifier
              IN  ResearchRowsOf(loader.before, id) # {}
                    => ResearchRowsOf(loader.research, id) = {ResearchRow(LastLoaded(id))}

-----------------------------------------------------------------------------
(* C28 *)

\* the step is the commit of a run that returns (finalize_db, line 194)
Commits == pc = "loop" /\ pc' = "done"

\* C28 as stated: once a completed run has marked a date success, no later
\* completed run changes the date's row: its status stays success and its
\* retry_count stays as it was.
C28_SuccessStable ==
    [][Commits => \A r \in committed : r.status = "success" => r \in committed']_vars

\* C28 amended: a later completed run leaves the row of a date marked success
\* as it was, unless the date lies in that run's backfill range and the run's
\* batch holds no record of it: then the run sets the row to failure and adds
\* one to its retry_count.
C28_SuccessKeptWhileHarvested ==
    [][Commits =>
         \A r \in committed :
            r.status = "success" =>
               LET d == r.fetch_date
               IN  RowsOf(committed', d) =
                      IF d \in BackfillRange /\ ~Harvested(d)
                      THEN {Row(d, "failure", r.retry_count + 1)}
                      ELSE {r}]_vars

\* the previous run left its target date success and an earlier date
\* unsuccessful; this run's range holds the target again, its batch has no
\* record of it, and the run has committed it as failure
C28_Witness ==
    /\ Completed
    /\ runs = 2
    /\ LET d == prev_run.day - 1
       IN  /\ d \notin prev_run.unsuccessful
           /\ \E e \in prev_run.unsuccessful : e < d
           /\ d \in BackfillRange
           /\ ~Harvested(d)
           /\ RowsOf(committed, d) = {Row(d, "failure", 1)}

\* the previous run left a date success; this run's range holds it again
\* and, its batch holding a record of it, has committed it unchanged
C28_KeptInRange ==
    /\ Completed
    /\ runs = 2
    /\ LET d == prev_run.day - 1
       IN  /\ d \notin prev_run.unsuccessful
           /\ \E e \in prev_run.unsuccessful : e < d
           /\ d \in BackfillRange
           /\ Harvested(d)
           /\ RowsOf(committed, d) = {Row(d, "success", 0)}

-----------------------------------------------------------------------------
(* C29 *)

\* every page of the batch has been put under d's key, in order
Stored(d) == PutsUnder(d) = WholeBatchUnder(d) /\ PutsUnder(d) # <<>>

\* the run ended in process_fetch, on an exception of upload_to_s3
UploadRaised == pc = "crashed" /\ InLoop /\ Len(calls) >= 2 * idx

\* Both statements are looked at whenever process_fetch has returned or raised,
\* of the dates the loop has reached.

\* C29 as stated: mark_success(d) is called only when every page of the batch
\* has been put under d's key; when the upload for d raises, mark_success(d)
\* is not called and d does not end the run as success; and a date of the
\* range is success after a run that returned only with its pages put in that
\* run.
C29_SuccessOnlyWithPayloads ==
    /\ pc # "process" => \A d \in Processed : MarkedSuccess(d) => Stored(d)
    /\ UploadRaised =>
          /\ ~MarkedSuccess(date_list[idx])
          /\ ~Succeeded(committed, date_list[idx])
    /\ Completed => \A d \in BackfillRange : Succeeded(committed, d) => Stored(d)

\* C29 amended: mark_success(d) is called only when every page of the batch
\* has been put under d's key; when the upload for d raises, mark_success(d)
\* is not called, and d ends the run as success only if the runs before had
\* left it success; and a date of the range is success after a run that
\* returned only with its pages put in that run.
C29_MarkedOnlyWithPayloads ==
    /\ pc # "process" => \A d \in Processed : MarkedSuccess(d) => Stored(d)
    /\ UploadRaised =>
          /\ ~MarkedSuccess(date_list[idx])
          /\ Succeeded(committed, date_list[idx]) =>
                date_list[idx] \notin prev_run.unsuccessful /\ runs > 1
    /\ Completed => \A d \in BackfillRange : Succeeded(committed, d) => Stored(d)

\* the upload for a date raised in a run that had marked an earlier date
\* success; the date is success all the same, left so by the run before
C29_Witness ==
    /\ UploadRaised
    /\ PutsUnder(date_list[idx]) = <<>>
    /\ Succeeded(committed, date_list[idx])
    /\ \E d \in BackfillRange : MarkedSuccess(d) /\ Stored(d)

-----------------------------------------------------------------------------
(* C30 *)

\* the cursor has returned in this run, and the run has not raised
CursorReturned == pc \in {"fetch", "loop", "process", "done"}

Judgement(d) == {r.status : r \in RowsOf(committed, d)}

\* C30: in every run the start date E the cursor returns is not later than the
\* loop's target date (yesterday); the backfill range E..yesterday is not
\* empty, holds at most 5 dates and ends at yesterday; and after a completed
\* run every date of it, the target date included, has one row, which says
\* success or failure and not pending.
C30_RangeEndsYesterday ==
    /\ CursorReturned => earliest_unfetched_date <= today
    /\ Fetched =>
          /\ date_list # <<>>
          /\ Len(date_list) <= Days
          /\ date_list[Len(date_list)] = today
          /\ BackfillRange = earliest_unfetched_date..today
    /\ Completed =>
          \A d \in BackfillRange \cup {today} :
              /\ Cardinality(RowsOf(committed, d)) = 1
              /\ Judgement(d) \subseteq {"success", "failure"}

\* a completed run whose status query raised and whose start date is the day
\* after its target date: the loop ran over no date, and the target date's
\* row is committed as pending
C30_EmptyRange ==
    /\ Completed
    /\ earliest_unfetched_date = today + 1
    /\ date_list = <<>>
    /\ Judgement(today) = {"pending"}

\* a completed run whose status query did not raise and found every candidate
\* but the latest success: the start date is the day after the target date
C30_EmptyRangeAllFetched ==
    /\ Completed
    /\ ~query_failed
    /\ earliest_unfetched_date = today + 1
    /\ date_list = <<>>

====
